---------------------------- MODULE Spec2Model ----------------------------
(***************************************************************************)
(* Model of the notebook qiskit/aqua/chemistry/advanced_howto.ipynb.       *)
(*                                                                         *)
(* The notebook is a straight-line program: its code cells run top to      *)
(* bottom.  Each cell is one action; the step-2 cell is split at the       *)
(* statements whose intermediate values are of interest (the index         *)
(* normalisation, the re-indexing after freezing, the doubling to spin     *)
(* orbitals, the freezing/elimination block and the mapping).              *)
(*                                                                         *)
(* The external library is opaque: a call into it is recorded in `calls`,  *)
(* and a value it returns is drawn from a small set.  The molecule, the    *)
(* freeze_list and the remove_list are written as literals in the          *)
(* notebook and are meant to be edited by its user, so they are drawn      *)
(* from bounded sets as well.                                              *)
(*                                                                         *)
(* Energies are Python floats.  They are modelled by a scaled-down binary  *)
(* floating-point format: integers that have at most MantBits significant  *)
(* bits, with addition rounding to nearest, ties to even.                  *)
(***************************************************************************)
EXTENDS Integers, Sequences, FiniteSets

\* ------------------------------------------------------------------ bounds
MaxOrb == 2

MaxFreeze == 1

MaxRemove == 2

MantBits == 3

\* --------------------------------------------------------- library values
\* Values the external library may hand back (all representable floats).
NuclearEnergies == {1, 2}

ShiftEnergies == {-6, -5}

ExactEigReals == {-3, -2}

\* The operator is Hermitian: its eigenvalues come back as complex numbers
\* with a zero imaginary part, which .real drops.
ExactEigImags == {0}

VQEEigvals == {-2, -1}

VARIABLES
    pc,                        \* the next cell / statement group to run
    calls,                     \* the library calls made so far, in order
    num_orbitals,              \* molecule._num_orbitals
    num_alpha,                 \* molecule._num_alpha
    num_beta,                  \* molecule._num_beta
    mol_nuclear,               \* molecule._nuclear_repulsion_energy
    freeze_orig,               \* freeze_list as the user wrote it
    remove_orig,               \* remove_list as the user wrote it
    freeze_list,
    remove_list,
    nuclear_repulsion_energy,
    num_particles,
    num_spin_orbitals,
    energy_shift,
    ret,                       \* ret['eigvals'][0] of the exact eigensolver
    results,                   \* results['eigvals'][0] of VQE
    total                      \* the value each 'total ground state energy' print formats

vars == <<pc, calls, num_orbitals, num_alpha, num_beta, mol_nuclear,
          freeze_orig, remove_orig, freeze_list, remove_list,
          nuclear_repulsion_energy, num_particles, num_spin_orbitals,
          energy_shift, ret, results, total>>

\* ------------------------------------------------------------- arithmetic
Abs(x) == IF x < 0 THEN -x ELSE x

RECURSIVE Pow2(_)
Pow2(k) == IF k <= 0 THEN 1 ELSE 2 * Pow2(k - 1)

\* The spacing of the floats around the magnitude m >= 0: 1 while m fits in
\* MantBits bits, doubling with every further bit.
RECURSIVE Ulp(_)
Ulp(m) == IF m < Pow2(MantBits) THEN 1 ELSE 2 * Ulp(m \div 2)

\* Round the real number x to the nearest float, ties to even mantissa.
RoundFloat(x) ==
    LET m    == Abs(x)
        u    == Ulp(m)
        lo   == (m \div u) * u
        rem  == m - lo
        up   == IF 2 * rem > u THEN TRUE
                ELSE IF 2 * rem < u THEN FALSE
                ELSE ((lo \div u) % 2) = 1
        r    == IF up THEN lo + u ELSE lo
    IN  IF x < 0 THEN -r ELSE r

\* Python's float +.
FloatAdd(a, b) == RoundFloat(a + b)

\* The remainder that truncates towards zero (C's %), which keeps the sign of x.
TruncMod(x, n) == IF x >= 0 THEN x % n ELSE -((-x) % n)

\* Python's int % for a positive modulus: the result has the sign of n.
PyMod(x, n) == x - n * (IF x >= 0 THEN x \div n ELSE -((-x + n - 1) \div n))

\* ------------------------------------------------------------ list helpers
RECURSIVE SeqsUpTo(_, _)
SeqsUpTo(S, k) ==
    IF k = 0 THEN {<<>>}
    ELSE LET shorter == SeqsUpTo(S, k - 1)
         IN  shorter \cup {Append(s, x) : s \in {t \in shorter : Len(t) = k - 1}, x \in S}

\* The indices Python accepts for a sequence of n orbitals.
OrbitalIndices(n) == (-n)..(n - 1)

\* ------------------------------------------------------- step-2 statements
\* remove_list = [x % molecule._num_orbitals for x in remove_list]
NormaliseList(list, n) == [i \in 1..Len(list) |-> PyMod(list[i], n)]

\* remove_list = [x - len(freeze_list) for x in remove_list]
ReindexRemove(rlist, flist) == [i \in 1..Len(rlist) |-> rlist[i] - Len(flist)]

\* remove_list += [x + molecule._num_orbitals - len(freeze_list) for x in remove_list]
DoubleRemove(rlist, flist, n) ==
    rlist \o [i \in 1..Len(rlist) |-> rlist[i] + n - Len(flist)]

\* The freeze_list left at its spatial orbitals.
FreezeNotDoubled(flist, n) == flist

\* freeze_list += [x + molecule._num_orbitals for x in freeze_list]
DoubleFreeze(flist, n) == flist \o [i \in 1..Len(flist) |-> flist[i] + n]

\* The total without the shift of the frozen orbitals.
TotalWithoutShift(eig, shift, nuc) == FloatAdd(eig, nuc)

\* ret['eigvals'][0].real + energy_shift + nuclear_repulsion_energy
TotalEnergy(eig, shift, nuc) == FloatAdd(FloatAdd(eig, shift), nuc)

\* ------------------------------------------------------------------- cells
Init ==
    /\ pc = "driver"
    /\ calls = <<>>
    /\ num_orbitals = 0
    /\ num_alpha = 0
    /\ num_beta = 0
    /\ mol_nuclear = 0
    /\ freeze_orig = <<>>
    /\ remove_orig = <<>>
    /\ freeze_list = <<>>
    /\ remove_list = <<>>
    /\ nuclear_repulsion_energy = 0
    /\ num_particles = 0
    /\ num_spin_orbitals = 0
    /\ energy_shift = 0
    /\ ret = [real |-> 0, imag |-> 0]
    /\ results = 0
    /\ total = [exact |-> 0, vqe |-> 0]

\* Step 1: molecule = driver.run(section); 'spin' is 0, so as many alpha as
\* beta electrons.
DriverRun ==
    /\ pc = "driver"
    /\ \E n \in 1..MaxOrb, occ \in 1..MaxOrb, nuc \in NuclearEnergies :
          /\ occ <= n
          /\ num_orbitals' = n
          /\ num_alpha' = occ
          /\ num_beta' = occ
          /\ mol_nuclear' = nuc
    /\ calls' = calls \o <<"get_driver_instance", "driver.run">>
    /\ pc' = "lists"
    /\ UNCHANGED <<freeze_orig, remove_orig, freeze_list, remove_list,
                   nuclear_repulsion_energy, num_particles, num_spin_orbitals,
                   energy_shift, ret, results, total>>

\* Step 2, first statements: the two lists, the integrals and the counters.
SetLists ==
    /\ pc = "lists"
    /\ \E fl \in SeqsUpTo(OrbitalIndices(num_orbitals), MaxFreeze),
          rl \in SeqsUpTo(OrbitalIndices(num_orbitals), MaxRemove) :
          /\ freeze_list' = fl
          /\ remove_list' = rl
          /\ freeze_orig' = fl
          /\ remove_orig' = rl
    /\ nuclear_repulsion_energy' = mol_nuclear
    /\ num_particles' = num_alpha + num_beta
    /\ num_spin_orbitals' = num_orbitals * 2
    /\ pc' = "normalise"
    /\ UNCHANGED <<calls, num_orbitals, num_alpha, num_beta, mol_nuclear,
                   energy_shift, ret, results, total>>

\* convert all negative idx to positive
NormaliseIdx ==
    /\ pc = "normalise"
    /\ remove_list' = NormaliseList(remove_list, num_orbitals)
    /\ freeze_list' = NormaliseList(freeze_list, num_orbitals)
    /\ pc' = "reindex"
    /\ UNCHANGED <<calls, num_orbitals, num_alpha, num_beta, mol_nuclear,
                   freeze_orig, remove_orig, nuclear_repulsion_energy,
                   num_particles, num_spin_orbitals, energy_shift, ret,
                   results, total>>

\* update the idx in remove_list of the idx after frozen
ReindexAfterFreeze ==
    /\ pc = "reindex"
    /\ remove_list' = ReindexRemove(remove_list, freeze_list)
    /\ pc' = "double"
    /\ UNCHANGED <<calls, num_orbitals, num_alpha, num_beta, mol_nuclear,
                   freeze_orig, remove_orig, freeze_list,
                   nuclear_repulsion_energy, num_particles, num_spin_orbitals,
                   energy_shift, ret, results, total>>

\* extend both lists from spatial orbitals to spin orbitals
DoubleLists ==
    /\ pc = "double"
    /\ remove_list' = DoubleRemove(remove_list, freeze_list, num_orbitals)
    /\ freeze_list' = DoubleFreeze(freeze_list, num_orbitals)
    /\ pc' = "freeze"
    /\ UNCHANGED <<calls, num_orbitals, num_alpha, num_beta, mol_nuclear,
                   freeze_orig, remove_orig, nuclear_repulsion_energy,
                   num_particles, num_spin_orbitals, energy_shift, ret,
                   results, total>>

\* The library calls of the freezing/elimination block, given the lengths of
\* the two (doubled) lists.
FreezeCalls(nfreeze, nremove) ==
    <<"FermionicOperator">>
    \o (IF nfreeze > 0 THEN <<"fermion_mode_freezing">> ELSE <<>>)
    \o (IF nremove > 0 THEN <<"fermion_mode_elimination">> ELSE <<>>)

\* num_spin_orbitals after the block.
SpinOrbitalsLeft(nso, nfreeze, nremove) ==
    LET afterFreeze == IF nfreeze > 0 THEN nso - nfreeze ELSE nso
    IN  IF nremove > 0 THEN afterFreeze - nremove ELSE afterFreeze

\* num_particles after the block.
ParticlesLeft(np, nfreeze) == IF nfreeze > 0 THEN np - nfreeze ELSE np

\* prepare fermionic hamiltonian with orbital freezing and eliminating
FreezeEliminate ==
    /\ pc = "freeze"
    /\ IF Len(freeze_list) > 0
          THEN \E shift \in ShiftEnergies : energy_shift' = shift
          ELSE energy_shift' = 0
    /\ num_spin_orbitals' =
          SpinOrbitalsLeft(num_spin_orbitals, Len(freeze_list), Len(remove_list))
    /\ num_particles' = ParticlesLeft(num_particles, Len(freeze_list))
    /\ calls' = calls \o FreezeCalls(Len(freeze_list), Len(remove_list))
    /\ pc' = "mapping"
    /\ UNCHANGED <<num_orbitals, num_alpha, num_beta, mol_nuclear, freeze_orig,
                   remove_orig, freeze_list, remove_list,
                   nuclear_repulsion_energy, ret, results, total>>

\* map_type is 'parity', so qubit_reduction is True and the two-qubit
\* reduction is always applied.
MappingCalls == <<"mapping", "two_qubit_reduced_operator", "chop">>

MapToQubits ==
    /\ pc = "mapping"
    /\ calls' = calls \o MappingCalls
    /\ pc' = "exact"
    /\ UNCHANGED <<num_orbitals, num_alpha, num_beta, mol_nuclear, freeze_orig,
                   remove_orig, freeze_list, remove_list,
                   nuclear_repulsion_energy, num_particles, num_spin_orbitals,
                   energy_shift, ret, results, total>>

ExactCalls == <<"get_algorithm_instance:ExactEigensolver",
                "exact_eigensolver.init_args", "exact_eigensolver.run">>

\* Using exact eigensolver to get the smallest eigenvalue
ExactEigensolver ==
    /\ pc = "exact"
    /\ \E re \in ExactEigReals, im \in ExactEigImags :
          /\ ret' = [real |-> re, imag |-> im]
          /\ total' = [total EXCEPT
                 !.exact = TotalEnergy(re, energy_shift, nuclear_repulsion_energy)]
    /\ calls' = calls \o ExactCalls
    /\ pc' = "accounts"
    /\ UNCHANGED <<num_orbitals, num_alpha, num_beta, mol_nuclear, freeze_orig,
                   remove_orig, freeze_list, remove_list,
                   nuclear_repulsion_energy, num_particles, num_spin_orbitals,
                   energy_shift, results>>

\* IBMQ.load_accounts()
LoadAccounts ==
    /\ pc = "accounts"
    /\ calls' = Append(calls, "IBMQ.load_accounts")
    /\ pc' = "config"
    /\ UNCHANGED <<num_orbitals, num_alpha, num_beta, mol_nuclear, freeze_orig,
                   remove_orig, freeze_list, remove_list,
                   nuclear_repulsion_energy, num_particles, num_spin_orbitals,
                   energy_shift, ret, results, total>>

\* The step-3 cell stopping short of vqe_algorithm.init_args.
ConfigCallsNoInit == <<"get_optimizer_instance", "cobyla.set_options",
                       "get_initial_state_instance", "HF_state.init_args",
                       "get_variational_form_instance", "var_form.init_args",
                       "get_algorithm_instance:VQE", "setup_quantum_backend">>

ConfigCalls == <<"get_optimizer_instance", "cobyla.set_options",
                 "get_initial_state_instance", "HF_state.init_args",
                 "get_variational_form_instance", "var_form.init_args",
                 "get_algorithm_instance:VQE", "setup_quantum_backend",
                 "vqe_algorithm.init_args">>

\* Step 3: optimizer, initial state, variational form and VQE.
ConfigInstances ==
    /\ pc = "config"
    /\ calls' = calls \o ConfigCalls
    /\ pc' = "run"
    /\ UNCHANGED <<num_orbitals, num_alpha, num_beta, mol_nuclear, freeze_orig,
                   remove_orig, freeze_list, remove_list,
                   nuclear_repulsion_energy, num_particles, num_spin_orbitals,
                   energy_shift, ret, results, total>>

RunCalls == <<"vqe_algorithm.run">>

\* Step 4: results = vqe_algorithm.run() and the report.
RunVQE ==
    /\ pc = "run"
    /\ \E eig \in VQEEigvals :
          /\ results' = eig
          /\ total' = [total EXCEPT
                 !.vqe = TotalEnergy(eig, energy_shift, nuclear_repulsion_energy)]
    /\ calls' = calls \o RunCalls
    /\ pc' = "done"
    /\ UNCHANGED <<num_orbitals, num_alpha, num_beta, mol_nuclear, freeze_orig,
                   remove_orig, freeze_list, remove_list,
                   nuclear_repulsion_energy, num_particles, num_spin_orbitals,
                   energy_shift, ret>>

Next ==
    \/ DriverRun
    \/ SetLists
    \/ NormaliseIdx
    \/ ReindexAfterFreeze
    \/ DoubleLists
    \/ FreezeEliminate
    \/ MapToQubits
    \/ ExactEigensolver
    \/ LoadAccounts
    \/ ConfigInstances
    \/ RunVQE

Spec == Init /\ [][Next]_vars

\* ------------------------------------------------------------- properties
\* The orbital a user-supplied index names: a negative index counts from the
\* end.
OrbitalOf(x, n) == IF x >= 0 THEN x ELSE n + x

OrbitalsOf(list, n) == {OrbitalOf(list[i], n) : i \in 1..Len(list)}

\* The index orbital o has once the orbitals in `frozen` are taken out of the
\* numbering.
IndexAfterFreezing(o, frozen) == o - Cardinality({g \in frozen : g < o})

DisjointLists ==
    OrbitalsOf(freeze_orig, num_orbitals) \cap OrbitalsOf(remove_orig, num_orbitals) = {}

\* C1: right after `remove_list = [x - len(freeze_list) for x in remove_list]`,
\* when the two lists name disjoint orbitals, every entry of remove_list is the
\* index its orbital has once the frozen orbitals are taken out of the
\* numbering: its original index minus the number of frozen orbitals with a
\* smaller original index.
C1_ReindexedAfterFreezing ==
    (pc = "double" /\ DisjointLists) =>
        /\ Len(remove_list) = Len(remove_orig)
        /\ \A i \in 1..Len(remove_list) :
              remove_list[i] =
                  IndexAfterFreezing(OrbitalOf(remove_orig[i], num_orbitals),
                                     OrbitalsOf(freeze_orig, num_orbitals))

InRange(x, n) == -n <= x /\ x < n

NormalisedFrom(list, orig, n) ==
    /\ Len(list) = Len(orig)
    /\ \A i \in 1..Len(orig) :
          InRange(orig[i], n) =>
              /\ list[i] \in 0..(n - 1)
              /\ orig[i] >= 0 => list[i] = orig[i]
              /\ orig[i] < 0 => list[i] = n + orig[i]

\* C2: after the two `x % molecule._num_orbitals` statements every entry x
\* with -n <= x < n has become a value in [0, n): x itself when x >= 0 and
\* n + x when x < 0; each list keeps its length and its order.
C2_NegativeIsReverseOrder ==
    pc = "reindex" =>
        /\ num_orbitals >= 1
        /\ NormalisedFrom(freeze_list, freeze_orig, num_orbitals)
        /\ NormalisedFrom(remove_list, remove_orig, num_orbitals)

C2_Witness ==
    /\ pc = "reindex"
    /\ num_orbitals = 2
    /\ freeze_orig = <<-2>>
    /\ freeze_list = <<0>>
    /\ remove_orig = <<-1, 1>>
    /\ remove_list = <<1, 1>>

Made(call) == \E i \in 1..Len(calls) : calls[i] = call

BlockDone == pc \in {"mapping", "exact", "accounts", "config", "run", "done"}

\* C3: after the freezing/elimination block, with n spatial orbitals, f
\* user-supplied freeze entries and r user-supplied remove entries,
\* num_spin_orbitals = 2n - 2f - 2r and num_particles = num_alpha + num_beta
\* - 2f; fermion_mode_freezing is called exactly when f > 0 and
\* fermion_mode_elimination exactly when r > 0; with f = 0 energy_shift is
\* 0.0 and num_particles is untouched, with f = r = 0 num_spin_orbitals is
\* untouched.
C3_ReductionBookkeeping ==
    LET n == num_orbitals
        f == Len(freeze_orig)
        r == Len(remove_orig)
    IN  /\ pc = "freeze" =>
              /\ num_spin_orbitals = 2 * n
              /\ num_particles = num_alpha + num_beta
        /\ BlockDone =>
              /\ num_spin_orbitals = 2 * n - 2 * f - 2 * r
              /\ num_particles = (num_alpha + num_beta) - 2 * f
              /\ Made("fermion_mode_freezing") <=> f > 0
              /\ Made("fermion_mode_elimination") <=> r > 0
              /\ f = 0 => energy_shift = 0

C3_Witness ==
    /\ pc = "mapping"
    /\ num_orbitals = 2
    /\ Len(freeze_orig) = 1
    /\ Len(remove_orig) = 1
    /\ num_spin_orbitals = 0
    /\ num_particles = 2
    /\ energy_shift # 0
    /\ Made("fermion_mode_freezing")
    /\ Made("fermion_mode_elimination")

\* The calls of each of the four steps.
Step1Calls == {"driver.run"}

Step2Calls == {"FermionicOperator", "fermion_mode_freezing",
               "fermion_mode_elimination", "mapping"}

Step3Calls == {"cobyla.set_options", "HF_state.init_args", "var_form.init_args",
               "setup_quantum_backend", "vqe_algorithm.init_args"}

Step4Calls == {"vqe_algorithm.run"}

StepTable ==
    [c \in Step1Calls \cup Step2Calls \cup Step3Calls \cup Step4Calls |->
        IF c \in Step1Calls THEN 1
        ELSE IF c \in Step2Calls THEN 2
        ELSE IF c \in Step3Calls THEN 3
        ELSE 4]

StepOf(call) == StepTable[call]

\* The order the calls of step 2 are listed in.
RankTable ==
    [c \in Step2Calls |->
        CASE c = "FermionicOperator" -> 1
          [] c = "fermion_mode_freezing" -> 2
          [] c = "fermion_mode_elimination" -> 3
          [] c = "mapping" -> 4]

\* The call that produces the result the next step starts from.
LastOfStep(k) ==
    CASE k = 1 -> "driver.run"
      [] k = 2 -> "mapping"
      [] k = 3 -> "vqe_algorithm.init_args"

InFourSteps(call) == call \in DOMAIN StepTable

\* C4: the library calls occur in the order step 1, step 2 (construction,
\* freezing, elimination, mapping), step 3, step 4; vqe_algorithm.run is
\* never called before the five configuration calls of step 3 have been
\* made; no call of a step is made before the previous step has produced its
\* result.
C4_FourStepOrder ==
    LET seq   == SelectSeq(calls, InFourSteps)
        steps == [i \in 1..Len(seq) |-> StepOf(seq[i])]
    IN  /\ \A i \in 1..(Len(seq) - 1) :
              /\ steps[i] <= steps[i + 1]
              /\ (steps[i] = 2 /\ steps[i + 1] = 2) =>
                     RankTable[seq[i]] < RankTable[seq[i + 1]]
        /\ \A j \in 1..Len(seq) :
              /\ seq[j] = "vqe_algorithm.run" =>
                    \A c \in Step3Calls :
                        \E i \in 1..(j - 1) : seq[i] = c
              /\ steps[j] > 1 =>
                    \E i \in 1..(j - 1) : seq[i] = LastOfStep(steps[j] - 1)

C4_Witness ==
    /\ pc = "done"
    /\ Made("driver.run")
    /\ Made("fermion_mode_freezing")
    /\ Made("fermion_mode_elimination")
    /\ Made("vqe_algorithm.init_args")
    /\ calls[Len(calls)] = "vqe_algorithm.run"

\* The sum eig + shift + nuc, left to right, with each + rounded.
RoundedSum(eig, shift, nuc) == RoundFloat(RoundFloat(eig + shift) + nuc)

\* No + of the sum rounds.
ExactSum(eig, shift, nuc) == RoundedSum(eig, shift, nuc) = eig + shift + nuc

AfterStep2 == pc \in {"exact", "accounts", "config", "run"}

=============================================================================
